---- MODULE Spec2Model ----
(***************************************************************************)
(* Model of the chunked map-reduce summarization pipeline of CrossTeamsAI: *)
(*   - MeetingSummarizer.run_summarizer and its file cache                 *)
(*     (01_summarization/summarizer.py),                                   *)
(*   - split_chunks and the batch runner main() (app/cli_runner.py),       *)
(*   - the UI callback ui_summarize (app/ui_runner.py).                    *)
(* Strings are sequences of one-character strings.                         *)
(***************************************************************************)
EXTENDS Integers, Sequences, FiniteSets, TLC

VARIABLES
    \* ---- the response cache and its callers (summarizer.py) ----
    files,      \* cache directory: key -> state of the entry file
    pc,         \* caller -> position inside run_summarizer
    req,        \* caller -> the (model, system_prompt, prompt) of its call
    out,        \* caller -> `output`, the text generation returned
    ret,        \* caller -> value returned by run_summarizer
    seen,       \* caller -> what json.load found in the entry file
    generated,  \* caller -> TRUE once chat.completions.create was invoked
    failedAt,   \* caller -> where the call raised ("none" while it has not)
    before,     \* caller -> callers on the same key that had returned when it began
    \* ---- the runners: main() of cli_runner.py, ui_summarize of ui_runner.py ----
    runner,     \* "cli" (batch runner) or "ui" (UI callback)
    args,       \* the parsed arguments / the callback's parameters
    disk,       \* content of the output file, as units of text on disk
    buf,        \* text written to `out` and not yet flushed to disk
    bpc,        \* position of the runner
    qi,         \* index of the current run item (= `written`)
    ex,         \* the current run item
    split,      \* what split_chunks returned for the current item
    chunks,     \* `chunks` after the max_chunks cap
    partials,   \* `partials`
    pred,       \* `pred` / `final`
    reqlog,     \* run_summarizer requests issued for the current item, in order
    rows,       \* rows passed to out.write so far, in order
    \* ---- one call of a pure function (split_chunks, keyword_prefilter, ...) ----
    call,       \* its arguments
    result      \* what it did: not called yet, returned a value, or never returns

cacheVars == <<files, pc, req, out, ret, seen, generated, failedAt, before>>

runVars == <<runner, args, disk, buf, bpc, qi, ex, split, chunks, partials,
             pred, reqlog, rows>>

chunkVars == <<call, result>>

vars == <<cacheVars, runVars, chunkVars>>

\* ------------------------------------------------------------------ bounds
NumCallers == 3

Callers == 1..NumCallers

\* ------------------------------------------------------------------ strings
None == <<"<None>">>

\* `system_prompt or ""`
OrEmpty(s) == IF s = None THEN <<>> ELSE s

\* Texts the generation service may return.
Responses == { <<"x">>, <<" ", "y">> }

\* The (model, system_prompt, prompt) triples callers ask for.
Requests ==
    { [model |-> <<"g">>,      system_prompt |-> <<"s">>, prompt |-> <<"p">>],
      [model |-> <<"g", "s">>, system_prompt |-> None,    prompt |-> <<"p">>],
      [model |-> <<"g">>,      system_prompt |-> None,    prompt |-> <<"p">>],
      [model |-> <<"g">>,      system_prompt |-> <<>>,    prompt |-> <<"q">>] }

\* ------------------------------------------------------------------ cache
\* md5 over model + (system_prompt or "") + prompt; the digest is taken to be
\* injective on the concatenated string, so the key is that string.
get_cache_path(prompt, model, system_prompt) ==
    model \o OrEmpty(system_prompt) \o prompt

KeyOf(r) == get_cache_path(r.prompt, r.model, r.system_prompt)

Keys == { KeyOf(r) : r \in Requests }

NoRec == [prompt |-> <<>>, system_prompt |-> <<>>, response |-> <<>>]

\* An entry file: absent, or present with 0 bytes ("empty"), an incomplete or
\* interleaved JSON text ("partial"), or the whole record ("complete").
\* `by` is the set of callers whose bytes reached the file since it was last
\* truncated.
Absent == [stage |-> "absent", rec |-> NoRec, by |-> {}]

NoReq == [model |-> <<>>, system_prompt |-> <<>>, prompt |-> <<>>]

CacheIdle ==
    /\ files = [k \in Keys |-> Absent]
    /\ pc = [p \in Callers |-> "idle"]
    /\ req = [p \in Callers |-> NoReq]
    /\ out = [p \in Callers |-> <<>>]
    /\ ret = [p \in Callers |-> <<>>]
    /\ seen = [p \in Callers |-> "none"]
    /\ generated = [p \in Callers |-> FALSE]
    /\ failedAt = [p \in Callers |-> "none"]
    /\ before = [p \in Callers |-> {}]

\* No runner is active (the state of the runner's variables in the
\* specifications of the cache alone).
NoItem == [query |-> <<>>, transcript |-> <<>>, task |-> "general"]

NoArgs == [chunk_chars |-> 0, overlap_chars |-> 0, max_chunks |-> 0,
           revise |-> FALSE, few_shot |-> FALSE]

RunIdle ==
    /\ runner = "none"
    /\ args = NoArgs
    /\ disk = <<>>
    /\ buf = <<>>
    /\ bpc = "idle"
    /\ qi = 0
    /\ ex = NoItem
    /\ split = <<>>
    /\ chunks = <<>>
    /\ partials = <<>>
    /\ pred = <<>>
    /\ reqlog = <<>>
    /\ rows = <<>>

NoCall == [text |-> <<>>, chunk_chars |-> 0, overlap_chars |-> 0]

NotCalled == [state |-> "none", chunks |-> <<>>, spans |-> <<>>]

ChunkIdle ==
    /\ call = NoCall
    /\ result = NotCalled

InitCache == CacheIdle /\ RunIdle /\ ChunkIdle

\* run_summarizer is entered: cache_path is computed.
Begin(p) ==
    /\ pc[p] = "idle"
    /\ \E r \in Requests :
        /\ req' = [req EXCEPT ![p] = r]
        /\ before' = [before EXCEPT ![p] =
                        { q \in Callers : pc[q] = "done" /\ KeyOf(req[q]) = KeyOf(r) }]
    /\ pc' = [pc EXCEPT ![p] = "check"]
    /\ UNCHANGED <<files, out, ret, seen, generated, failedAt, runVars, chunkVars>>

\* A call begins only when no other call is in flight (callers one after another).
BeginSeq(p) ==
    /\ \A q \in Callers : pc[q] \in {"idle", "done", "failed"}
    /\ Begin(p)

\* Mutation of Exists: the entry file is never found.
ExistsMiss(p) ==
    /\ pc[p] = "check"
    /\ pc' = [pc EXCEPT ![p] = "generate"]
    /\ UNCHANGED <<files, req, out, ret, seen, generated, failedAt, before, runVars, chunkVars>>

\* if os.path.exists(cache_path)
Exists(p) ==
    /\ pc[p] = "check"
    /\ pc' = [pc EXCEPT ![p] =
                IF files[KeyOf(req[p])].stage # "absent" THEN "read" ELSE "generate"]
    /\ UNCHANGED <<files, req, out, ret, seen, generated, failedAt, before, runVars, chunkVars>>

\* with open(cache_path, "r"): return json.load(f)["response"]
\* json.load raises on a file that does not hold one whole JSON value.
ReadEntry(p) ==
    /\ pc[p] = "read"
    /\ LET f == files[KeyOf(req[p])] IN
        /\ seen' = [seen EXCEPT ![p] = f.stage]
        /\ IF f.stage = "complete"
              THEN /\ ret' = [ret EXCEPT ![p] = f.rec.response]
                   /\ pc' = [pc EXCEPT ![p] = "done"]
                   /\ UNCHANGED failedAt
              ELSE /\ pc' = [pc EXCEPT ![p] = "failed"]
                   /\ failedAt' = [failedAt EXCEPT ![p] = "read"]
                   /\ UNCHANGED ret
    /\ UNCHANGED <<files, req, out, generated, before, runVars, chunkVars>>

\* response = self.client.chat.completions.create(...); output = ...content
Generate(p) ==
    /\ pc[p] = "generate"
    /\ generated' = [generated EXCEPT ![p] = TRUE]
    /\ \E o \in Responses : out' = [out EXCEPT ![p] = o]
    /\ pc' = [pc EXCEPT ![p] = "open"]
    /\ UNCHANGED <<files, req, ret, seen, failedAt, before, runVars, chunkVars>>

\* The generation call raises, or the call is cancelled while it is outstanding.
GenerateFail(p) ==
    /\ pc[p] = "generate"
    /\ generated' = [generated EXCEPT ![p] = TRUE]
    /\ pc' = [pc EXCEPT ![p] = "failed"]
    /\ failedAt' = [failedAt EXCEPT ![p] = "generate"]
    /\ UNCHANGED <<files, req, out, ret, seen, before, runVars, chunkVars>>

\* with open(cache_path, "w"): the file is created or truncated to 0 bytes.
OpenWrite(p) ==
    /\ pc[p] = "open"
    /\ files' = [files EXCEPT ![KeyOf(req[p])] =
                    [stage |-> "empty", rec |-> NoRec, by |-> {}]]
    /\ pc' = [pc EXCEPT ![p] = "write"]
    /\ UNCHANGED <<req, out, ret, seen, generated, failedAt, before, runVars, chunkVars>>

\* The record json.dump writes: system_prompt is stored as passed (None kept).
EntryOf(p) ==
    [prompt |-> req[p].prompt, system_prompt |-> req[p].system_prompt,
     response |-> out[p]]

\* json.dump: part of the text is flushed to the file before the close.
DumpFlush(p) ==
    /\ pc[p] = "write"
    /\ LET k == KeyOf(req[p]) IN
        /\ p \notin files[k].by
        /\ files' = [files EXCEPT ![k] =
                        [stage |-> "partial", rec |-> NoRec, by |-> files[k].by \cup {p}]]
    /\ UNCHANGED <<pc, req, out, ret, seen, generated, failedAt, before, runVars, chunkVars>>

\* The with block ends: the rest is flushed and the file closed; return output.
\* When another writer's bytes are in the file since this caller truncated or
\* began writing it, the two texts overlay each other: the result is this
\* caller's record when it covers the other bytes, and otherwise a mix.
CloseWrite(p) ==
    /\ pc[p] = "write"
    /\ LET k == KeyOf(req[p]) IN
        \E mixed \in BOOLEAN :
            /\ mixed => (files[k].by \ {p}) # {}
            /\ files' = [files EXCEPT ![k] =
                            IF mixed
                               THEN [stage |-> "partial", rec |-> NoRec,
                                     by |-> files[k].by \cup {p}]
                               ELSE [stage |-> "complete", rec |-> EntryOf(p),
                                     by |-> files[k].by \cup {p}]]
    /\ ret' = [ret EXCEPT ![p] = out[p]]
    /\ pc' = [pc EXCEPT ![p] = "done"]
    /\ UNCHANGED <<req, out, seen, generated, failedAt, before, runVars, chunkVars>>

\* The call is cancelled, or the write raises, inside the with block: the file
\* is closed holding whatever had been written (nothing, or part of the text).
WriteFail(p) ==
    /\ pc[p] = "write"
    /\ LET k == KeyOf(req[p]) IN
        \E some \in BOOLEAN :
            files' = [files EXCEPT ![k] =
                        IF some
                           THEN [stage |-> "partial", rec |-> NoRec,
                                 by |-> files[k].by \cup {p}]
                           ELSE files[k]]
    /\ pc' = [pc EXCEPT ![p] = "failed"]
    /\ failedAt' = [failedAt EXCEPT ![p] = "write"]
    /\ UNCHANGED <<req, out, ret, seen, generated, before, runVars, chunkVars>>

run_summarizer(p) ==
    \/ Exists(p)
    \/ ReadEntry(p)
    \/ Generate(p)
    \/ GenerateFail(p)
    \/ OpenWrite(p)
    \/ DumpFlush(p)
    \/ CloseWrite(p)
    \/ WriteFail(p)

\* Callers sharing one cache directory, running concurrently.
NextCache == \E p \in Callers : Begin(p) \/ run_summarizer(p)

SpecCache == InitCache /\ [][NextCache]_vars

\* Callers running one after another.
NextSeq == \E p \in Callers : BeginSeq(p) \/ run_summarizer(p)

SpecSeq == InitCache /\ [][NextSeq]_vars

\* ---- the same calls when the file system can refuse an operation ----
\* os.path.exists(cache_path) where os.stat raises OSError on the entry that is
\* there (the cache directory cannot be searched, an I/O error):
\* os.path.exists catches the error and answers False.
ExistsStatError(p) ==
    /\ pc[p] = "check"
    /\ files[KeyOf(req[p])].stage # "absent"
    /\ pc' = [pc EXCEPT ![p] = "generate"]
    /\ UNCHANGED <<files, req, out, ret, seen, generated, failedAt, before, runVars, chunkVars>>

\* open(cache_path, "r") raises (the entry file cannot be read): nothing
\* catches it.
OpenReadError(p) ==
    /\ pc[p] = "read"
    /\ seen' = [seen EXCEPT ![p] = "denied"]
    /\ pc' = [pc EXCEPT ![p] = "failed"]
    /\ failedAt' = [failedAt EXCEPT ![p] = "read"]
    /\ UNCHANGED <<files, req, out, ret, generated, before, runVars, chunkVars>>

\* open(cache_path, "w") raises: nothing catches it, the file is untouched.
OpenWriteError(p) ==
    /\ pc[p] = "open"
    /\ pc' = [pc EXCEPT ![p] = "failed"]
    /\ failedAt' = [failedAt EXCEPT ![p] = "open"]
    /\ UNCHANGED <<files, req, out, ret, seen, generated, before, runVars, chunkVars>>

\* Callers running one after another on a file system that can refuse.
NextFault ==
    \E p \in Callers :
        \/ BeginSeq(p)
        \/ run_summarizer(p)
        \/ ExistsStatError(p)
        \/ OpenReadError(p)
        \/ OpenWriteError(p)

SpecFault == InitCache /\ [][NextFault]_vars

\* ------------------------------------------------------------------ chunker
Min(a, b) == IF a < b THEN a ELSE b

Max(a, b) == IF a > b THEN a ELSE b

\* Python text[s:e] for 0 <= s <= e <= len(text)
Slice(text, s, e) == SubSeq(text, s + 1, e)

\* The loop with `start = end` as its last line: windows that do not overlap.
RECURSIVE SplitLoopNoOverlap(_, _, _, _, _, _)
SplitLoopNoOverlap(n, chunk_chars, overlap_chars, start, outp, fuel) ==
    IF ~(start < n) \/ fuel = 0 THEN [spans |-> outp, ok |-> TRUE]
    ELSE LET end == IF start + chunk_chars < n THEN start + chunk_chars ELSE n
         IN  SplitLoopNoOverlap(n, chunk_chars, overlap_chars, end,
                                Append(outp, <<start, end>>), fuel - 1)

\* The loop with `start = max(0, end - overlap_chars) + 1` as its last line.
RECURSIVE SplitLoopSkip(_, _, _, _, _, _)
SplitLoopSkip(n, chunk_chars, overlap_chars, start, outp, fuel) ==
    IF ~(start < n) \/ fuel = 0 THEN [spans |-> outp, ok |-> TRUE]
    ELSE LET end == IF start + chunk_chars < n THEN start + chunk_chars ELSE n
             back == IF end - overlap_chars > 0 THEN end - overlap_chars ELSE 0
         IN  IF end = n
                THEN [spans |-> Append(outp, <<start, end>>), ok |-> TRUE]
                ELSE SplitLoopSkip(n, chunk_chars, overlap_chars, back + 1,
                                   Append(outp, <<start, end>>), fuel - 1)

\* The while loop of split_chunks over the spans [start, end) it appends;
\* n = len(text). Each iteration either ends the loop or, when
\* overlap_chars < chunk_chars, moves start forward, so the loop ends within
\* n iterations or never: `fuel` starts at n + 1 and ok = FALSE says the loop
\* does not end.
RECURSIVE SplitLoop(_, _, _, _, _, _)
SplitLoop(n, chunk_chars, overlap_chars, start, outp, fuel) ==
    IF ~(start < n) THEN [spans |-> outp, ok |-> TRUE]
    ELSE IF fuel = 0 THEN [spans |-> outp, ok |-> FALSE]
    ELSE LET end == Min(start + chunk_chars, n)
             out2 == Append(outp, <<start, end>>)
         IN  IF end = n
                THEN [spans |-> out2, ok |-> TRUE]
                ELSE SplitLoop(n, chunk_chars, overlap_chars,
                               Max(0, end - overlap_chars), out2, fuel - 1)

\* split_chunks, as the spans of the chunks it returns.
SplitSpans(n, chunk_chars, overlap_chars) ==
    IF chunk_chars <= 0
       THEN [spans |-> << <<0, n>> >>, ok |-> TRUE]
       ELSE SplitLoop(n, chunk_chars, overlap_chars, 0, <<>>, n + 1)

\* split_chunks(text, chunk_chars, overlap_chars) where it returns.
split_chunks(text, chunk_chars, overlap_chars) ==
    LET sp == SplitSpans(Len(text), chunk_chars, overlap_chars).spans
    IN  [i \in 1..Len(sp) |-> Slice(text, sp[i][1], sp[i][2])]

\* Whether split_chunks returns at all.
Returns(text, chunk_chars, overlap_chars) ==
    SplitSpans(Len(text), chunk_chars, overlap_chars).ok

\* ------------------------------------------------------------------ split_chunks alone
ChunkMaxLen == 4

ChunkMaxSize == 5

ChunkMaxOverlap == 3

\* All texts over two characters up to a length.
RECURSIVE TextsUpTo(_)
TextsUpTo(n) ==
    IF n = 0 THEN { <<>> }
    ELSE LET shorter == TextsUpTo(n - 1)
         IN  shorter \cup { Append(t, c) : t \in shorter, c \in {"a", "b"} }

\* The example call of the chunking contract: 100 characters, windows of 40
\* characters overlapping by 10.
ExampleCall ==
    [text |-> [i \in 1..100 |-> "a"], chunk_chars |-> 40, overlap_chars |-> 10]

InitChunk ==
    /\ CacheIdle
    /\ RunIdle
    /\ call \in [text : TextsUpTo(ChunkMaxLen), chunk_chars : (-1)..ChunkMaxSize,
                 overlap_chars : (-1)..ChunkMaxOverlap] \cup { ExampleCall }
    /\ result = NotCalled

\* out = split_chunks(text, chunk_chars, overlap_chars)
SplitCall ==
    /\ result.state = "none"
    /\ result' =
        IF Returns(call.text, call.chunk_chars, call.overlap_chars)
           THEN [state |-> "returned",
                 chunks |-> split_chunks(call.text, call.chunk_chars, call.overlap_chars),
                 spans |-> SplitSpans(Len(call.text), call.chunk_chars,
                                      call.overlap_chars).spans]
           ELSE [state |-> "never returns", chunks |-> <<>>, spans |-> <<>>]
    /\ UNCHANGED <<cacheVars, runVars, call>>

NextChunk == SplitCall

SpecChunk == InitChunk /\ [][NextChunk]_vars

\* ------------------------------------------------------------------ keyword_prefilter alone
\* A transcript is the sequence of its lines (the text is the lines joined by
\* "\n"), a line and a query are sequences of characters.
MinKept == 60

Twelfth == 12

MaxWindow == 2

MaxPeriod == 3

\* str.lower on the characters used here
Lower(c) ==
    CASE c = "A" -> "a" [] c = "B" -> "b" [] c = "C" -> "c" [] c = "D" -> "d"
      [] c = "H" -> "h" [] c = "M" -> "m" [] c = "U" -> "u"
      [] OTHER -> c

LowerStr(s) == [i \in 1..Len(s) |-> Lower(s[i])]

Whitespace == {" ", "\n", "\t"}

\* str.split(): the maximal runs of non-whitespace characters, in order
RECURSIVE SplitWords(_, _, _)
SplitWords(s, i, cur) ==
    LET done == IF cur = <<>> THEN <<>> ELSE <<cur>>
    IN  IF i > Len(s) THEN done
        ELSE IF s[i] \in Whitespace THEN done \o SplitWords(s, i + 1, <<>>)
        ELSE SplitWords(s, i + 1, Append(cur, s[i]))

LongToken(t) == Len(t) > 2

\* toks = [t for t in query.lower().split() if len(t) > 2]
Tokens(query) == SelectSeq(SplitWords(LowerStr(query), 1, <<>>), LongToken)

\* t in low
Contains(t, low) ==
    \E i \in 1..(Len(low) - Len(t) + 1) : SubSeq(low, i, i + Len(t) - 1) = t

\* any(t in low for t in toks), low = ln.lower()
LineHits(ln, toks) == \E k \in 1..Len(toks) : Contains(toks[k], LowerStr(ln))

\* Mutation of KeepSet: only the lines that contain a token are marked.
KeepSetHitsOnly(lines, toks, window) ==
    { h \in 1..Len(lines) : LineHits(lines[h], toks) }

\* The indices j with keep[j] set by the loop over the lines (indices from 1).
KeepSet(lines, toks, window) ==
    UNION { Max(1, i - window)..Min(Len(lines), i + window) :
                i \in { h \in 1..Len(lines) : LineHits(lines[h], toks) } }

\* kept = [l for l, k in zip(lines, keep) if k], over the lines lo..hi; the
\* range is halved so that the evaluation stays shallow on long transcripts.
RECURSIVE KeptFrom(_, _, _, _)
KeptFrom(lines, keep, lo, hi) ==
    IF lo > hi THEN <<>>
    ELSE IF lo = hi THEN (IF lo \in keep THEN <<lines[lo]>> ELSE <<>>)
    ELSE LET mid == (lo + hi) \div 2
         IN  KeptFrom(lines, keep, lo, mid) \o KeptFrom(lines, keep, mid + 1, hi)

\* keyword_prefilter that never falls back to the transcript.
keyword_prefilter_nofallback(transcript, query, window) ==
    LET toks == Tokens(query)
    IN  IF toks = <<>> \/ transcript = <<>> THEN transcript
        ELSE KeptFrom(transcript, KeepSet(transcript, toks, window), 1, Len(transcript))

keyword_prefilter(transcript, query, window) ==
    LET lines == transcript
        toks == Tokens(query)
    IN  IF toks = <<>> \/ lines = <<>> THEN transcript
        ELSE LET kept == KeptFrom(lines, KeepSet(lines, toks, window), 1, Len(lines))
             IN  IF Len(kept) < Max(MinKept, Len(lines) \div Twelfth)
                    THEN transcript
                    ELSE kept

HitLine == <<"A", "b", "c", "d">>

MissLine == <<"x", "y">>

\* n lines, each ending with its number; every period-th line among the
\* first upto contains "abcd".
Pattern(n, period, upto) ==
    [i \in 1..n |->
        (IF i <= upto /\ i % period = 0 THEN HitLine ELSE MissLine) \o <<ToString(i)>>]

LineCounts ==
    {0, 1, MinKept - 1, MinKept, MinKept + 1,
     Twelfth * MinKept + Twelfth - 1, Twelfth * (MinKept + 1)}

Transcripts ==
    { Pattern(n, period, upto) :
        n \in LineCounts, period \in 1..MaxPeriod, upto \in {0, MinKept - 1, MinKept} }
    \cup { Pattern(n, period, n) : n \in LineCounts, period \in 1..MaxPeriod }

Queries ==
    { <<>>,
      <<"a", "b">>,
      <<"B", "C", "D">>,
      <<"a", "b", " ", "x", "y", "z">>,
      <<" ", "x", "y", "z", "\t", "b", "c", "d", "\n">> }

InitPrefilter ==
    /\ CacheIdle
    /\ RunIdle
    /\ call \in [transcript : Transcripts, query : Queries, window : 0..MaxWindow]
    /\ result = NotCalled

\* text_for_chunking = keyword_prefilter(full_transcript, query, window)
PrefilterCall ==
    /\ result.state = "none"
    /\ result' = [state |-> "returned",
                  text |-> keyword_prefilter(call.transcript, call.query, call.window)]
    /\ UNCHANGED <<cacheVars, runVars, call>>

NextPrefilter == PrefilterCall

SpecPrefilter == InitPrefilter /\ [][NextPrefilter]_vars

\* ------------------------------------------------------------------ runners
MaxText == 3

MaxChunkChars == 2

MaxOverlap == 1

MaxCap == 2

MaxItems == 2

Alphabet == <<"a", "b", "c", "d", "e">>

\* Transcripts: texts of distinct characters, and a text of white space.
Texts == { SubSeq(Alphabet, 1, n) : n \in 0..Min(MaxText, Len(Alphabet)) } \cup { <<" ">> }

\* str.strip()
RECURSIVE LStrip(_)
LStrip(s) == IF s # <<>> /\ Head(s) \in Whitespace THEN LStrip(Tail(s)) ELSE s

RECURSIVE RStrip(_)
RStrip(s) ==
    IF s # <<>> /\ s[Len(s)] \in Whitespace THEN RStrip(SubSeq(s, 1, Len(s) - 1)) ELSE s

Strip(s) == RStrip(LStrip(s))

\* Run items of the batch runner (the loader strips the query) and the
\* inputs of the UI callback.
CliItems ==
    [query : { <<"q">> }, transcript : Texts \ { <<" ">> }, task : {"general"}]

UiItems ==
    [query : { <<"q">>, <<" ", "q">> }, transcript : Texts,
     task : {"general", "decisions", "other"}]

CliArgs ==
    [chunk_chars : (-1)..MaxChunkChars, overlap_chars : 0..MaxOverlap,
     max_chunks : (-1)..MaxCap, revise : BOOLEAN, few_shot : {FALSE}]

\* ui_summarize has no cap, no revise pass and no few-shot prefix.
UiArgs ==
    [chunk_chars : (-1)..MaxChunkChars, overlap_chars : 0..MaxOverlap,
     max_chunks : {0}, revise : {FALSE}, few_shot : {FALSE}]

\* keyword_prefilter on a transcript of fewer than 60 lines: either there is
\* no token or line, or len(kept) < max(60, len(lines) // 12); both return
\* the transcript. Every text of Texts is one line at most.
keyword_prefilter_short(transcript, query) == transcript

\* top_bigrams on a text with fewer than two tokens of more than 2
\* characters returns []. Every text of Texts is shorter than 6 characters.
top_bigrams_short(text) == <<>>

\* seq[:n] of Python
SliceTo(seq, n) ==
    IF n >= 0 THEN SubSeq(seq, 1, Min(n, Len(seq)))
              ELSE SubSeq(seq, 1, Max(0, Len(seq) + n))

\* Mutation of Cap: the cap is not applied.
CapNone(chs, max_chunks) == chs

\* if len(chunks) > args.max_chunks: chunks = chunks[:args.max_chunks]
Cap(chs, max_chunks) ==
    IF Len(chs) > max_chunks THEN SliceTo(chs, max_chunks) ELSE chs

\* TASK_TEMPLATES of ui_runner.py; an instruction text is named by its
\* opening words.
TASK_TEMPLATES ==
    [general      |-> [map    |-> "write a concise but complete summary",
                       reduce |-> "merge partial answers into one coherent summary"],
     decisions    |-> [map    |-> "extract DECISIONS",
                       reduce |-> "merge DECISIONS"],
     blockers     |-> [map    |-> "extract BLOCKERS",
                       reduce |-> "merge BLOCKERS"],
     action_items |-> [map    |-> "extract ACTION ITEMS",
                       reduce |-> "merge ACTION ITEMS"],
     risks        |-> [map    |-> "extract RISKS",
                       reduce |-> "merge RISKS"],
     followups    |-> [map    |-> "extract FOLLOW-UPS/QUESTIONS",
                       reduce |-> "merge FOLLOW-UPS/QUESTIONS"]]

TaskNames == DOMAIN TASK_TEMPLATES

\* Mutation of TemplateOf: an unknown task gets the templates of decisions.
TemplateOfDecisions(task) ==
    IF task \in DOMAIN TASK_TEMPLATES THEN TASK_TEMPLATES[task]
    ELSE TASK_TEMPLATES["decisions"]

\* TASK_TEMPLATES.get(task, TASK_TEMPLATES["general"])
TemplateOf(task) ==
    IF task \in DOMAIN TASK_TEMPLATES THEN TASK_TEMPLATES[task]
    ELSE TASK_TEMPLATES["general"]

\* A prompt is the record of the parts its f-string is built from: the
\* instruction, the optional few-shot prefix and phrase clause, the query and
\* the body (the slice, the partial answers in the order joined, or the draft).
build_query_prompt(query, transcript_slice, phrases_to_preserve, use_few_shot) ==
    [kind |-> "map", ins |-> "cli", few_shot |-> use_few_shot,
     keep |-> phrases_to_preserve, query |-> query, body |-> <<transcript_slice>>]

build_reduce_prompt(query, partial_summaries, phrases_to_preserve) ==
    [kind |-> "reduce", ins |-> "cli", few_shot |-> FALSE,
     keep |-> phrases_to_preserve, query |-> query, body |-> partial_summaries]

ui_build_query_prompt(query, transcript_slice, task) ==
    [kind |-> "map", ins |-> TemplateOf(task)["map"], few_shot |-> FALSE,
     keep |-> <<>>, query |-> Strip(query), body |-> <<transcript_slice>>]

ui_build_reduce_prompt(query, partial_list, task) ==
    [kind |-> "reduce", ins |-> TemplateOf(task)["reduce"], few_shot |-> FALSE,
     keep |-> <<>>, query |-> Strip(query), body |-> partial_list]

\* MeetingSummarizer.build_prompt: the instruction chosen by mode, then the
\* dialogue rendered from the transcript.
build_prompt(transcript, mode, query) ==
    [ins |-> CASE mode = "decision" -> <<"Summarize key decisions">>
               [] mode = "blocker" -> <<"Summarize any issues or blockers">>
               [] mode = "query" /\ query \notin {None, <<>>} ->
                      <<"Summarize the meeting in response to this query", query>>
               [] OTHER -> <<"Summarize this meeting">>,
     body |-> transcript]

\* Mutation of revise_prompt: the draft is left out of the prompt.
revise_prompt_nodraft(draft_text, query) ==
    [kind |-> "revise", ins |-> "editor", few_shot |-> FALSE,
     keep |-> <<>>, query |-> query, body |-> <<>>]

\* The prompt revise_summary builds (its system prompt is the editor's).
revise_prompt(draft_text, query) ==
    [kind |-> "revise", ins |-> "editor", few_shot |-> FALSE,
     keep |-> <<>>, query |-> query, body |-> <<draft_text>>]

\* One output line is two units of text: a flush may fall between them.
RowUnits(r) == << [row |-> r, half |-> 1], [row |-> r, half |-> 2] >>

RECURSIVE AllUnits(_)
AllUnits(rs) == IF rs = <<>> THEN <<>> ELSE RowUnits(Head(rs)) \o AllUnits(Tail(rs))

OldRow == [query_id |-> -1, query |-> <<"q">>, prediction |-> <<"x">>]

InitCli ==
    /\ runner = "cli"
    /\ args \in CliArgs
    /\ disk \in { <<>>, RowUnits(OldRow) }

InitUi ==
    /\ runner = "ui"
    /\ args \in UiArgs
    /\ disk = <<>>

InitRun ==
    /\ CacheIdle
    /\ ChunkIdle
    /\ InitCli \/ InitUi
    /\ buf = <<>>
    /\ bpc = "start"
    /\ qi = 0
    /\ ex = NoItem
    /\ split = <<>>
    /\ chunks = <<>>
    /\ partials = <<>>
    /\ pred = <<>>
    /\ reqlog = <<>>
    /\ rows = <<>>

\* with open(args.out_jsonl, "w") as out: the file is truncated.
OpenOut ==
    /\ bpc = "start" /\ runner = "cli"
    /\ disk' = <<>>
    /\ bpc' = "loop"
    /\ UNCHANGED <<cacheVars, chunkVars, runner, args, buf, qi, ex, split, chunks,
                   partials, pred, reqlog, rows>>

\* Mutation of CloseOut: the buffered text is dropped.
CloseDrop(d, b) == d

\* The file is closed (the with block ends, normally or by an exception):
\* the buffered text reaches the disk.
CloseOut(d, b) == d \o b

\* for ex in run_items: steps (a) to (c) up to the chunk list.
NextItem ==
    /\ bpc = "loop" /\ runner = "cli" /\ qi < MaxItems
    /\ \E item \in CliItems :
        LET text_for_chunking == keyword_prefilter_short(item.transcript, item.query)
            returns == Returns(text_for_chunking, args.chunk_chars, args.overlap_chars)
            chs == split_chunks(text_for_chunking, args.chunk_chars, args.overlap_chars)
        IN  /\ ex' = item
            /\ split' = IF returns THEN chs ELSE <<>>
            /\ chunks' = IF returns THEN Cap(chs, args.max_chunks) ELSE <<>>
            /\ bpc' = IF returns THEN "map" ELSE "hang"
    /\ partials' = <<>>
    /\ pred' = <<>>
    /\ reqlog' = <<>>
    /\ UNCHANGED <<cacheVars, chunkVars, runner, args, disk, buf, qi, rows>>

\* ui_summarize up to the chunk list.
UiSummarize ==
    /\ bpc = "start" /\ runner = "ui"
    /\ \E item \in UiItems :
        LET transcript == Strip(item.transcript)
            returns == Returns(transcript, args.chunk_chars, args.overlap_chars)
            chs == split_chunks(transcript, args.chunk_chars, args.overlap_chars)
        IN  /\ ex' = [item EXCEPT !.transcript = transcript]
            /\ IF transcript = <<>>
                  THEN /\ bpc' = "done"
                       /\ pred' = <<"Please paste a transcript.">>
                       /\ UNCHANGED <<split, chunks>>
                  ELSE /\ split' = IF returns THEN chs ELSE <<>>
                       /\ chunks' = split'
                       /\ bpc' = IF returns THEN "map" ELSE "hang"
                       /\ UNCHANGED pred
    /\ UNCHANGED <<cacheVars, chunkVars, runner, args, disk, buf, qi, partials,
                   reqlog, rows>>

MapPrompt(ch) ==
    IF runner = "ui"
       THEN ui_build_query_prompt(ex.query, ch, ex.task)
       ELSE build_query_prompt(ex.query, ch, top_bigrams_short(ex.transcript),
                               args.few_shot)

ReducePrompt(ps) ==
    IF runner = "ui"
       THEN ui_build_reduce_prompt(ex.query, ps, ex.task)
       ELSE build_reduce_prompt(ex.query, ps, top_bigrams_short(ex.transcript))

\* run_summarizer as one step of the runner. Its cache directory outlives
\* the runs, so a request may hit an entry of any earlier request or miss and
\* generate: either way it returns one of the texts generation produces.
Outcomes(prompt) == Responses

Logged(kind, ci, prompt, resp, ok) ==
    Append(reqlog, [kind |-> kind, ci |-> ci, prompt |-> prompt, resp |-> resp,
                    ok |-> ok])

\* Mutation of AddPartial: the partial answer is put in front.
AddPartialFront(ps, part) == <<part>> \o ps

\* partials.append(part)
AddPartial(ps, part) == Append(ps, part)

\* for ch in chunks: part = ms.run_summarizer(map_prompt, ...).strip()
MapCall ==
    /\ bpc = "map" /\ Len(partials) < Len(chunks)
    /\ LET ci == Len(partials)
           prompt == MapPrompt(chunks[ci + 1])
       IN  \E r \in Outcomes(prompt) :
            /\ partials' = AddPartial(partials, Strip(r))
            /\ reqlog' = Logged("map", ci, prompt, r, TRUE)
    /\ UNCHANGED <<cacheVars, chunkVars, runner, args, disk, buf, bpc, qi, ex, split,
                   chunks, pred, rows>>

\* Mutation of NeedsReduce: the partials are always merged.
NeedsReduceAlways(ps) == TRUE

\* if len(partials) == 1: ... else: (reduce)
NeedsReduce(ps) == Len(ps) # 1

\* pred = partials[0]
SkipReduce ==
    /\ bpc = "map" /\ Len(partials) = Len(chunks)
    /\ ~NeedsReduce(partials)
    /\ pred' = partials[1]
    /\ bpc' = "revise"
    /\ UNCHANGED <<cacheVars, chunkVars, runner, args, disk, buf, qi, ex, split, chunks,
                   partials, reqlog, rows>>

\* pred = ms.run_summarizer(reduce_prompt, ...).strip()
ReduceCall ==
    /\ bpc = "map" /\ Len(partials) = Len(chunks)
    /\ NeedsReduce(partials)
    /\ LET prompt == ReducePrompt(partials)
       IN  \E r \in Outcomes(prompt) :
            /\ pred' = Strip(r)
            /\ reqlog' = Logged("reduce", Len(partials), prompt, r, TRUE)
    /\ bpc' = "revise"
    /\ UNCHANGED <<cacheVars, chunkVars, runner, args, disk, buf, qi, ex, split, chunks,
                   partials, rows>>

\* if args.revise == "on": pred = ms.revise_summary(pred, query, model=...)
ReviseCall ==
    /\ bpc = "revise" /\ runner = "cli" /\ args.revise
    /\ LET prompt == revise_prompt(pred, ex.query)
       IN  \E r \in Outcomes(prompt) :
            /\ pred' = Strip(r)
            /\ reqlog' = Logged("revise", Len(partials), prompt, r, TRUE)
    /\ bpc' = "write"
    /\ UNCHANGED <<cacheVars, chunkVars, runner, args, disk, buf, qi, ex, split, chunks,
                   partials, rows>>

NoRevise ==
    /\ bpc = "revise" /\ runner = "cli" /\ ~args.revise
    /\ bpc' = "write"
    /\ UNCHANGED <<cacheVars, chunkVars, runner, args, disk, buf, qi, ex, split, chunks,
                   partials, pred, reqlog, rows>>

\* return final, structured
UiReturn ==
    /\ bpc = "revise" /\ runner = "ui"
    /\ bpc' = "done"
    /\ UNCHANGED <<cacheVars, chunkVars, runner, args, disk, buf, qi, ex, split, chunks,
                   partials, pred, reqlog, rows>>

\* out.write(json.dumps(row) + "\n"); written += 1
\* The line goes to the buffer; the buffer may overflow to disk at any unit.
WriteRow ==
    /\ bpc = "write"
    /\ LET row == [query_id |-> qi, query |-> ex.query, prediction |-> pred]
           text == buf \o RowUnits(row)
       IN  /\ rows' = Append(rows, row)
           /\ \E k \in 0..Len(text) :
                /\ disk' = disk \o SubSeq(text, 1, k)
                /\ buf' = SubSeq(text, k + 1, Len(text))
    /\ qi' = qi + 1
    /\ bpc' = "loop"
    /\ UNCHANGED <<cacheVars, chunkVars, runner, args, ex, split, chunks, partials,
                   pred, reqlog>>

\* The for loop is exhausted; the with block closes the file.
EndLoop ==
    /\ bpc = "loop" /\ runner = "cli"
    /\ disk' = CloseOut(disk, buf)
    /\ buf' = <<>>
    /\ bpc' = "done"
    /\ UNCHANGED <<cacheVars, chunkVars, runner, args, qi, ex, split, chunks, partials,
                   pred, reqlog, rows>>

\* The run_summarizer request the runner is about to issue, if any.
Pending ==
    IF bpc = "map" /\ Len(partials) < Len(chunks)
       THEN [kind |-> "map", ci |-> Len(partials),
             prompt |-> MapPrompt(chunks[Len(partials) + 1])]
    ELSE IF bpc = "map" /\ NeedsReduce(partials)
       THEN [kind |-> "reduce", ci |-> Len(partials), prompt |-> ReducePrompt(partials)]
    ELSE IF bpc = "revise" /\ runner = "cli" /\ args.revise
       THEN [kind |-> "revise", ci |-> Len(partials),
             prompt |-> revise_prompt(pred, ex.query)]
    ELSE [kind |-> "none", ci |-> 0, prompt |-> revise_prompt(<<>>, <<>>)]

\* chat.completions.create raises inside run_summarizer: nothing in
\* main() or ui_summarize catches it, so it leaves the for loop and the with
\* block, which closes the output file.
GenFail ==
    /\ Pending.kind # "none"
    /\ reqlog' = Logged(Pending.kind, Pending.ci, Pending.prompt, <<>>, FALSE)
    /\ disk' = IF runner = "cli" THEN CloseOut(disk, buf) ELSE disk
    /\ buf' = <<>>
    /\ bpc' = "aborted"
    /\ UNCHANGED <<cacheVars, chunkVars, runner, args, qi, ex, split, chunks, partials,
                   pred, rows>>

NextRun ==
    \/ OpenOut
    \/ NextItem
    \/ UiSummarize
    \/ MapCall
    \/ SkipReduce
    \/ ReduceCall
    \/ ReviseCall
    \/ NoRevise
    \/ UiReturn
    \/ WriteRow
    \/ EndLoop
    \/ GenFail

SpecRun == InitRun /\ [][NextRun]_vars

\* ------------------------------------------------------------------ prompt builders alone
MaxParts == 2

PromptTasks == TaskNames \cup {"other", "decision", ""}

PromptModes == {"general", "decision", "blocker", "query", "decisions", "other"}

PromptQueries == { <<>>, <<"q">>, <<" ", "q">> }

PartLists == UNION { [1..n -> Responses] : n \in 0..MaxParts }

PromptCalls ==
    [fn : {"build_query_prompt"}, task : PromptTasks, query : PromptQueries,
     transcript_slice : Texts]
    \cup [fn : {"build_reduce_prompt"}, task : PromptTasks, query : PromptQueries,
          partials : PartLists]
    \cup [fn : {"build_prompt"}, mode : PromptModes, query : PromptQueries \cup {None},
          transcript : { <<>>, <<"m1">>, <<"m1", "m2">> }]

InitPrompt ==
    /\ CacheIdle
    /\ RunIdle
    /\ call \in PromptCalls
    /\ result = NotCalled

\* One call of a prompt builder.
PromptCall ==
    /\ result.state = "none"
    /\ result' =
        [state |-> "returned",
         prompt |->
            CASE call.fn = "build_query_prompt" ->
                    ui_build_query_prompt(call.query, call.transcript_slice, call.task)
              [] call.fn = "build_reduce_prompt" ->
                    ui_build_reduce_prompt(call.query, call.partials, call.task)
              [] call.fn = "build_prompt" ->
                    build_prompt(call.transcript, call.mode, call.query)]
    /\ UNCHANGED <<cacheVars, runVars, call>>

NextPrompt == PromptCall

SpecPrompt == InitPrompt /\ [][NextPrompt]_vars

\* ------------------------------------------------------------------ normalization alone
\* The three lines preprocess_chat_logs and _concat_transcript apply to a
\* text. "*" stands for a character of the ranges U+2600-U+26FF and
\* U+2700-U+27BF; letters are word characters, white space and "*" are not.
MaxNormLen == 4

NormAlphabet == {"u", "h", "M", "a", " ", "*"}

NotEmoji(c) == c # "*"

\* re.sub(r'[☀-⛿✀-➿]+', '', text)
RemoveEmoji(text) == SelectSeq(text, NotEmoji)

IsWordChar(c) == c \notin Whitespace \cup {"*"}

\* A whole word that (uh+|um+) matches, whatever the case of its letters.
IsFiller(word) ==
    /\ Len(word) >= 2
    /\ Lower(word[1]) = "u"
    /\ \/ \A i \in 2..Len(word) : Lower(word[i]) = "h"
       \/ \A i \in 2..Len(word) : Lower(word[i]) = "m"

\* re.sub(r'\b(uh+|um+)\b', '', text, flags=re.IGNORECASE): between the two
\* \b the pattern takes a maximal run of word characters or nothing, so the
\* words that are fillers are dropped and everything else stays in place.
RECURSIVE FillerScan(_, _, _)
FillerScan(text, i, word) ==
    LET flushed == IF IsFiller(word) THEN <<>> ELSE word
    IN  IF i > Len(text) THEN flushed
        ELSE IF IsWordChar(text[i]) THEN FillerScan(text, i + 1, Append(word, text[i]))
        ELSE flushed \o <<text[i]>> \o FillerScan(text, i + 1, <<>>)

RemoveFillers(text) == FillerScan(text, 1, <<>>)

\* The same three steps with the strip done first.
normalize_strip_first(text) == RemoveFillers(RemoveEmoji(Strip(text)))

\* emoji removal, then filler removal, then text.strip()
normalize(text) == Strip(RemoveFillers(RemoveEmoji(text)))

RECURSIVE NormTexts(_)
NormTexts(n) ==
    IF n = 0 THEN { <<>> }
    ELSE LET shorter == NormTexts(n - 1)
         IN  shorter \cup { Append(t, c) : t \in shorter, c \in NormAlphabet }

InitNorm ==
    /\ CacheIdle
    /\ RunIdle
    /\ call \in [text : NormTexts(MaxNormLen)]
    /\ result = NotCalled

\* The normalization applied to a raw text, and applied again to its output.
NormalizeCall ==
    \/ /\ result.state = "none"
       /\ result' = [state |-> "once", text |-> normalize(call.text)]
       /\ UNCHANGED <<cacheVars, runVars, call>>
    \/ /\ result.state = "once"
       /\ result' = [state |-> "twice", first |-> result.text,
                     text |-> normalize(result.text)]
       /\ UNCHANGED <<cacheVars, runVars, call>>

NextNorm == NormalizeCall

SpecNorm == InitNorm /\ [][NextNorm]_vars

\* ------------------------------------------------------------------ loader and extractor
\* iter_qmsum builds input_text from a query and the meeting's transcript;
\* main() gets the transcript back with extract_transcript_from_input_text.
\* A text is a sequence of units: single characters, and the fixed words
\* "Transcript:" and the instruction that opens input_text, each one unit.
MaxSegs == 2

MaxContentLen == 2

ContentAlphabet == {"a", " ", "\n", "Transcript:"}

RECURSIVE StringsOver(_, _)
StringsOver(alphabet, n) ==
    IF n = 0 THEN { <<>> }
    ELSE LET shorter == StringsOver(alphabet, n - 1)
         IN  shorter \cup { Append(t, c) : t \in shorter, c \in alphabet }

\* The segments of meeting_transcripts: a speaker ("" when there is none)
\* and a content.
Segments == [speaker : {"A", ""}, content : StringsOver(ContentAlphabet, MaxContentLen)]

Meetings == UNION { [1..n -> Segments] : n \in 0..MaxSegs }

\* Query texts as _extract_queries yields them (stripped).
LoadQueries ==
    { <<"q">>, <<>>, <<"q", "\n", "\n", "r">>, <<"Transcript:", "\n", "q">> }

\* sep.join(parts)
RECURSIVE Join(_, _)
Join(parts, sep) ==
    IF parts = <<>> THEN <<>>
    ELSE IF Len(parts) = 1 THEN parts[1]
    ELSE parts[1] \o sep \o Join(Tail(parts), sep)

\* The parts _concat_transcript appends for the segments i.. of mt (i from 1;
\* the index printed is i - 1).
RECURSIVE ConcatParts(_, _)
ConcatParts(mt, i) ==
    IF i > Len(mt) THEN <<>>
    ELSE LET spk == IF mt[i].speaker = "" THEN "UNK" ELSE mt[i].speaker
             txt == normalize(mt[i].content)
             rest == ConcatParts(mt, i + 1)
         IN  IF txt # <<>>
                THEN << <<spk, " [", ToString(i - 1), "]: ">> \o txt >> \o rest
                ELSE rest

_concat_transcript(mt) == Join(ConcatParts(mt, 1), <<"\n">>)

\* input_text = f"Summarize the meeting in response to this query: '{query}'\n\n{transcript}"
InputText(query, transcript) ==
    <<"Summarize the meeting in response to this query: ", "'">> \o query
        \o <<"'", "\n", "\n">> \o transcript

\* str.find: the least offset (from 0) where pat occurs in text, or -1
Find(text, pat) ==
    LET hits == { i \in 0..(Len(text) - Len(pat)) :
                    SubSeq(text, i + 1, i + Len(pat)) = pat }
    IN  IF hits = {} THEN -1 ELSE CHOOSE i \in hits : \A j \in hits : i <= j

extract_transcript_from_input_text(input_text) ==
    LET t_prefix == <<"Transcript:", "\n">>
        idx == Find(input_text, t_prefix)
    IN  IF idx = -1
           THEN LET sep == <<"\n", "\n">>
                    j == Find(input_text, sep)
                IN  IF j = -1 THEN input_text
                    ELSE SubSeq(input_text, j + Len(sep) + 1, Len(input_text))
           ELSE SubSeq(input_text, idx + Len(t_prefix) + 1, Len(input_text))

InitLoad ==
    /\ CacheIdle
    /\ RunIdle
    /\ call \in [mt : Meetings, query : LoadQueries]
    /\ result = NotCalled

\* iter_qmsum yields the record of one query of one meeting.
LoadRecord ==
    /\ result.state = "none"
    /\ LET transcript == _concat_transcript(call.mt)
       IN  result' = [state |-> "loaded", transcript |-> transcript,
                      input_text |-> InputText(call.query, transcript)]
    /\ UNCHANGED <<cacheVars, runVars, call>>

\* full_transcript = extract_transcript_from_input_text(ex["input_text"])
ExtractCall ==
    /\ result.state = "loaded"
    /\ result' = [state |-> "extracted", transcript |-> result.transcript,
                  input_text |-> result.input_text,
                  full_transcript |->
                      extract_transcript_from_input_text(result.input_text)]
    /\ UNCHANGED <<cacheVars, runVars, call>>

NextLoad == LoadRecord \/ ExtractCall

SpecLoad == InitLoad /\ [][NextLoad]_vars

\* ------------------------------------------------------------------ claims: cache

\* C1: of two run_summarizer calls on the same key made one after the other,
\* the second (begun after the first returned) never invokes generation and
\* returns what the first returned; so a first call that missed and the second
\* make one generation invocation between them.
C1_SecondCallHits ==
    \A p \in Callers : \A q \in before[p] :
        /\ seen[q] = "none" => generated[q]
        /\ ~generated[p]
        /\ pc[p] \notin {"generate", "open", "write", "failed"}
        /\ pc[p] = "done" => (ret[p] = ret[q] /\ seen[p] = "complete")

C1_Witness ==
    \E p \in Callers : \E q \in before[p] :
        /\ generated[q] /\ seen[q] = "none"
        /\ pc[p] = "done" /\ ~generated[p] /\ ret[p] = out[q]

\* C2: a complete cache entry keeps its stored response in every later step,
\* whatever run_summarizer calls run on its key, one after another or
\* concurrently.
C2_EntryNeverChanges ==
    [][\A k \in Keys :
          files[k].stage = "complete" =>
              /\ files'[k].stage = "complete"
              /\ files'[k].rec.response = files[k].rec.response]_vars

\* C3: no caller ever reads a partially written entry: what json.load finds is
\* the complete record (or the caller saw no entry and read nothing).
C3_NoPartialRead ==
    \A p \in Callers : seen[p] \in {"none", "complete"}

\* C4: after a call was cancelled or failed during generation or during the
\* cache write, the cache holds for its key no entry or the complete entry.
C4_FailureLeavesNoneOrComplete ==
    \A p \in Callers :
        failedAt[p] \in {"generate", "write"} =>
            files[KeyOf(req[p])].stage \in {"absent", "complete"}

\* ------------------------------------------------------------------ claims: runners
Finished == bpc = "write" \/ (runner = "ui" /\ bpc = "done" /\ chunks # <<>>)

MapEntries == { i \in 1..Len(reqlog) : reqlog[i].kind = "map" }

ReduceEntries == { i \in 1..Len(reqlog) : reqlog[i].kind = "reduce" }

\* C5: when the chunk list mapped has exactly one chunk and revise is off, the
\* only request issued for the query is the map request of that chunk, no
\* reduce request is made, and the prediction is that request's partial
\* answer (the stripped response).
C5_SingleChunkSkipsReduce ==
    (Len(chunks) = 1 /\ ~args.revise) =>
        /\ Len(reqlog) <= 1
        /\ ReduceEntries = {}
        /\ Finished =>
            /\ Len(reqlog) = 1
            /\ reqlog[1].kind = "map" /\ reqlog[1].ci = 0
            /\ reqlog[1].prompt.body = <<chunks[1]>>
            /\ partials = <<Strip(reqlog[1].resp)>>
            /\ pred = partials[1]

C5_Witness ==
    /\ Finished /\ Len(chunks) = 1 /\ ~args.revise
    /\ reqlog[1].resp = <<" ", "y">> /\ pred = <<"y">>

\* The statement of C6 for the cap N: the chunk list is the first N chunks
\* split_chunks returned, every map request is for one of them, and once the
\* answer is there each of the N was mapped once and the reduce request (made
\* unless N = 1) merges N partial answers.
C6_Body(N) ==
    /\ chunks = SubSeq(split, 1, N)
    /\ \A i \in MapEntries :
        /\ reqlog[i].ci < N
        /\ reqlog[i].prompt.body = <<split[reqlog[i].ci + 1]>>
    /\ bpc \in {"revise", "write"} =>
        /\ { reqlog[i].ci : i \in MapEntries } = 0..(N - 1)
        /\ Cardinality(MapEntries) = Max(N, 0)
        /\ \A i \in ReduceEntries : Len(reqlog[i].prompt.body) = Max(N, 0)
        /\ N # 1 => ReduceEntries # {}

InItem == runner = "cli" /\ bpc \in {"map", "revise", "write", "aborted"}

C7_MapOrderThenReduce ==
    (runner \in {"cli", "ui"} /\ bpc \in {"map", "revise", "write", "aborted", "done"}
        /\ Len(chunks) >= 2) =>
        \A i \in 1..Len(reqlog) :
            /\ i <= Len(chunks) =>
                /\ reqlog[i].kind = "map" /\ reqlog[i].ci = i - 1
                /\ reqlog[i].prompt.body = <<chunks[i]>>
            /\ reqlog[i].kind = "reduce" =>
                /\ i = Len(chunks) + 1
                /\ \A j \in 1..Len(chunks) : reqlog[j].ok
                /\ reqlog[i].prompt.body =
                        [j \in 1..Len(chunks) |-> Strip(reqlog[j].resp)]

C7_Witness ==
    /\ Len(chunks) >= 2
    /\ \E i \in ReduceEntries :
        /\ reqlog[i].ok
        /\ reqlog[i].prompt.body[1] # reqlog[i].prompt.body[2]

\* C8: a request that fails is the last request of the run, no record is
\* written for its query, and the output file then holds exactly the whole
\* records of the queries before it, in run order.
C8_AbortKeepsWholeRecords ==
    runner = "cli" =>
        /\ \A i \in 1..(Len(reqlog) - 1) : reqlog[i].ok
        /\ (reqlog # <<>> /\ ~reqlog[Len(reqlog)].ok) => bpc = "aborted"
        /\ bpc = "aborted" =>
            /\ buf = <<>>
            /\ disk = AllUnits(rows)
            /\ Len(rows) = qi
            /\ \A j \in 1..Len(rows) : rows[j].query_id = j - 1

C8_Witness ==
    /\ runner = "cli" /\ bpc = "aborted" /\ qi >= 1
    /\ Len(reqlog) >= 2
    /\ disk = AllUnits(rows) /\ Len(rows) = qi

IsPrefix(s, t) == Len(s) <= Len(t) /\ SubSeq(t, 1, Len(s)) = s

\* C9: the batch runner only appends to its output file: what the file holds
\* before a step of the run, it still holds, in the same place, after it.
C9_AppendOnly == [][runner = "cli" => IsPrefix(disk, disk')]_vars

\* C14: a run whose parameters are an invalid combination (a negative
\* chunk_chars with a nonzero overlap_chars) is rejected before any
\* generation request is issued: it issues no request and writes no row.
C14_InvalidArgsRejected ==
    (runner = "cli" /\ args.chunk_chars < 0 /\ args.overlap_chars # 0) =>
        (reqlog = <<>> /\ rows = <<>> /\ bpc \notin {"map", "revise", "write"})

ReviseEntries == { i \in 1..Len(reqlog) : reqlog[i].kind = "revise" }

\* C16: with revise on, the batch runner issues exactly one revise request per
\* query, as the last request of the query, after the final answer (the
\* stripped response of the request before it) was obtained; the request goes
\* through run_summarizer like the others, carries that answer and the query,
\* and its stripped response is the prediction written. With revise off no
\* revise request is issued.
C16_ReviseOnceAfterFinal ==
    runner = "cli" =>
        /\ ~args.revise => ReviseEntries = {}
        /\ ReviseEntries \subseteq {Len(reqlog)}
        /\ (args.revise /\ bpc \in {"write", "loop"} /\ reqlog # <<>>) =>
            LET n == Len(reqlog)
                e == reqlog[n]
            IN  /\ ReviseEntries = {n}
                /\ n >= 2
                /\ reqlog[n - 1].kind \in {"map", "reduce"}
                /\ reqlog[n - 1].kind = "map" => n = 2
                /\ e.prompt.body = << Strip(reqlog[n - 1].resp) >>
                /\ e.prompt.query = ex.query
                /\ e.resp \in Outcomes(e.prompt)
                /\ bpc = "write" => pred = Strip(e.resp)
                /\ bpc = "loop" => rows[Len(rows)].prediction = Strip(e.resp)

C16_Witness ==
    /\ runner = "cli" /\ args.revise /\ bpc = "loop"
    /\ Len(reqlog) = 4
    /\ reqlog[3].kind = "reduce" /\ reqlog[4].kind = "revise"
    /\ reqlog[4].resp # Strip(reqlog[4].resp)
    /\ rows[Len(rows)].prediction = Strip(reqlog[4].resp)

\* C23: for every query the batch runner processes, whatever the transcript
\* (the empty one included) and the max_chunks value, at least one map request
\* has been issued when the prediction is produced, and no reduce request is
\* issued over an empty list of partial answers.
C23_MapBeforePrediction ==
    runner = "cli" =>
        /\ \A i \in ReduceEntries : reqlog[i].prompt.body # <<>>
        /\ bpc \in {"revise", "write"} => MapEntries # {}

\* ------------------------------------------------------------------ claims: cache faults

\* C15: a call for a key whose entry an earlier call has written never invokes
\* generation and never writes the entry, whatever happens when it looks for
\* the entry and reads it (found and read, unreadable, inaccessible,
\* unparsable): it returns the stored response or fails.
C15_UnreadableEntryIsError ==
    \A p \in Callers :
        before[p] # {} =>
            /\ ~generated[p]
            /\ pc[p] \in {"check", "read", "done", "failed"}
            /\ pc[p] = "failed" => failedAt[p] = "read"

\* C20: two requests whose (model, system_prompt, prompt) triples differ never
\* resolve to the same cache entry, so a call that returns a stored response
\* returns one that was generated for its own triple.
C20_DistinctTriplesDistinctEntries ==
    \A p \in Callers :
        /\ \A q \in Callers :
              (req[p] # NoReq /\ req[q] # NoReq /\ req[p] # req[q]) =>
                  KeyOf(req[p]) # KeyOf(req[q])
        /\ (pc[p] = "done" /\ seen[p] = "complete") =>
              \A q \in files[KeyOf(req[p])].by : req[q] = req[p]

\* ------------------------------------------------------------------ claims: split_chunks

\* C10: for every text and chunk_chars with len(text) <= chunk_chars (the empty
\* text included), split_chunks returns exactly one chunk, equal to the text.
C10_ShortTextOneChunk ==
    (result.state # "none" /\ Len(call.text) <= call.chunk_chars) =>
        (result.state = "returned" /\ result.chunks = <<call.text>>)

Starts(spans) == [i \in 1..Len(spans) |-> spans[i][1]]

EndOfLast(spans) == spans[Len(spans)][2]

\* C11 (as stated): for the text of length 100 with chunk_chars = 40 and
\* overlap_chars = 10 the chunks start at the offsets 0, 30, 60, 90 and the
\* last chunk ends at offset 100.
C11_FourStarts ==
    (call = ExampleCall /\ result.state # "none") =>
        /\ result.state = "returned"
        /\ Starts(result.spans) = <<0, 30, 60, 90>>
        /\ EndOfLast(result.spans) = 100

\* C11 (amended): for the text of length 100 with chunk_chars = 40 and
\* overlap_chars = 10 the chunks start at the offsets 0, 30, 60 and the last
\* chunk ends at offset 100.
C11_ThreeStarts ==
    (call = ExampleCall /\ result.state # "none") =>
        /\ result.state = "returned"
        /\ Starts(result.spans) = <<0, 30, 60>>
        /\ EndOfLast(result.spans) = 100

C11_Witness ==
    /\ call = ExampleCall
    /\ result.state = "returned"
    /\ Len(result.chunks) = 3
    /\ Len(result.chunks[3]) = 40

\* C12: for a non-empty text, chunk_chars > 0 and 0 <= overlap_chars <
\* chunk_chars, the chunks cover every character position of the text (the
\* first starts at 0, the last ends at len(text), none leaves a gap), and every
\* chunk after the first starts exactly overlap_chars before the end of the
\* chunk before it.
C12_CoverAndOverlap ==
    ( /\ result.state # "none"
      /\ Len(call.text) > 0
      /\ call.chunk_chars > 0
      /\ 0 <= call.overlap_chars /\ call.overlap_chars < call.chunk_chars ) =>
        /\ result.state = "returned"
        /\ Len(result.chunks) = Len(result.spans)
        /\ \A i \in 1..Len(result.spans) :
              result.chunks[i] = Slice(call.text, result.spans[i][1], result.spans[i][2])
        /\ \A pos \in 0..(Len(call.text) - 1) :
              \E i \in 1..Len(result.spans) :
                  result.spans[i][1] <= pos /\ pos < result.spans[i][2]
        /\ \A i \in 2..Len(result.spans) :
              result.spans[i][1] = result.spans[i - 1][2] - call.overlap_chars

C12_Witness ==
    /\ result.state = "returned"
    /\ call.overlap_chars = 1 /\ call.chunk_chars = 2
    /\ Len(result.spans) = 3
    /\ result.spans[3] = <<2, 4>>

\* C19: for every text, chunk_chars > 0 and overlap_chars >= 0, split_chunks
\* returns, the chunk that ends at len(text) is in the list exactly once, as
\* its last element, and no chunk is empty.
C19_TerminatesOneFinalChunk ==
    (result.state # "none" /\ call.chunk_chars > 0 /\ call.overlap_chars >= 0) =>
        /\ result.state = "returned"
        /\ Cardinality({ i \in 1..Len(result.spans) :
                            result.spans[i][2] = Len(call.text) }) = 1
        /\ result.spans # <<>> /\ EndOfLast(result.spans) = Len(call.text)
        /\ \A i \in 1..Len(result.chunks) : result.chunks[i] # <<>>

\* ------------------------------------------------------------------ claims: keyword_prefilter

\* The lines kept by the filter: those at most `window` lines away from a line
\* that contains a query token.
KeptCount ==
    LET toks == Tokens(call.query)
        n == Len(call.transcript)
    IN  Cardinality({ j \in 1..n :
            \E i \in (j - call.window)..(j + call.window) :
                i \in 1..n /\ LineHits(call.transcript[i], toks) })

\* C13: when fewer than max(60, total_lines / 12) lines are kept,
\* keyword_prefilter returns the transcript it was given, unchanged; so it does
\* whenever no line contains a query token.
C13_FallsBackToTranscript ==
    result.state # "none" =>
        /\ KeptCount < Max(60, Len(call.transcript) \div 12) =>
              result.text = call.transcript
        /\ (\A i \in 1..Len(call.transcript) :
                ~LineHits(call.transcript[i], Tokens(call.query))) =>
              result.text = call.transcript

C13_Witness ==
    /\ result.state = "returned"
    /\ Len(call.transcript) = 732
    /\ KeptCount = 60
    /\ result.text = call.transcript

\* Indices of the lines at most `window` lines away from a line that contains,
\* whatever the case, a query token of more than 2 characters.
NearHit ==
    LET toks == SelectSeq(SplitWords(LowerStr(call.query), 1, <<>>), LongToken)
        n == Len(call.transcript)
    IN  { j \in 1..n :
            \E i \in (j - call.window)..(j + call.window) :
                /\ i \in 1..n
                /\ \E k \in 1..Len(toks) :
                     Contains(toks[k], LowerStr(call.transcript[i])) }

\* C22: when keyword_prefilter does not fall back (the query has a token of
\* more than 2 characters and at least max(60, total_lines / 12) lines are
\* kept), its output is made of exactly the transcript lines at most `window`
\* lines away from a line containing a query token, each once, in transcript
\* order.
C22_OutputIsKeptLinesInOrder ==
    ( /\ result.state # "none"
      /\ Tokens(call.query) # <<>>
      /\ Cardinality(NearHit) >= Max(60, Len(call.transcript) \div 12) ) =>
        LET near == NearHit
        IN  /\ Len(result.text) = Cardinality(near)
            /\ \A j \in near :
                  result.text[Cardinality({ i \in near : i <= j })] = call.transcript[j]

C22_Witness ==
    /\ result.state = "returned"
    /\ call.window = 1
    /\ Len(call.transcript) = 61
    /\ Len(result.text) = 60
    /\ result.text[1] = call.transcript[2]
    /\ result.text[60] = call.transcript[61]

\* ------------------------------------------------------------------ claims: normalization

\* C17: normalizing (emoji-range characters removed, then the whole words
\* uh.. / um.. removed, then the ends stripped of whitespace) is idempotent:
\* applied to its own output it returns that output.
C17_NormalizeIdempotent ==
    result.state = "twice" => result.text = result.first

C17_Witness ==
    /\ result.state = "twice"
    /\ call.text = <<"a", " ", "u", "M">>
    /\ result.first = <<"a">>
    /\ result.text = <<"a">>

\* ------------------------------------------------------------------ claims: prompt builders

\* C18: each of the tasks general, decisions, blockers, action_items, risks,
\* followups has a map instruction and a reduce instruction; for a task name
\* outside that set the map prompt and the reduce prompt built are those
\* built for task general from the same query and body, and build_prompt
\* given a mode it does not know builds the prompt of mode general.
C18_TasksCompleteUnknownIsGeneral ==
    /\ \A t \in {"general", "decisions", "blockers", "action_items", "risks",
                 "followups"} :
          /\ t \in DOMAIN TASK_TEMPLATES
          /\ {"map", "reduce"} \subseteq DOMAIN TASK_TEMPLATES[t]
          /\ TASK_TEMPLATES[t]["map"] # "" /\ TASK_TEMPLATES[t]["reduce"] # ""
    /\ result.state = "returned" =>
          /\ ( /\ call.fn = "build_query_prompt"
               /\ call.task \notin {"general", "decisions", "blockers", "action_items",
                                    "risks", "followups"} ) =>
                result.prompt =
                    ui_build_query_prompt(call.query, call.transcript_slice, "general")
          /\ ( /\ call.fn = "build_reduce_prompt"
               /\ call.task \notin {"general", "decisions", "blockers", "action_items",
                                    "risks", "followups"} ) =>
                result.prompt = ui_build_reduce_prompt(call.query, call.partials, "general")
          /\ ( /\ call.fn = "build_prompt"
               /\ call.mode \notin {"general", "decision", "blocker", "query"} ) =>
                result.prompt = build_prompt(call.transcript, "general", call.query)

C18_Witness ==
    /\ result.state = "returned"
    /\ call.fn = "build_reduce_prompt"
    /\ call.task = "decision"
    /\ Len(call.partials) = 2
    /\ result.prompt.ins = "merge partial answers into one coherent summary"
    /\ result.prompt.body = call.partials

\* ------------------------------------------------------------------ claims: loader and extractor

\* C21: for every record iter_qmsum yields, whatever the query text and the
\* transcript content, extract_transcript_from_input_text applied to the
\* record's input_text returns exactly the transcript the loader concatenated.
C21_ExtractReturnsTranscript ==
    result.state = "extracted" => result.full_transcript = result.transcript

====
